---- MODULE Spec2Model ----
(***************************************************************************)
(* The swap / points workflow of the ReWear server: the Express handlers   *)
(* of routes/swaps.js, the points and counter updates they issue against   *)
(* the User collection, and the item handlers that share those counters.   *)
(* Every `await` on the data store is one atomic step of a request; the    *)
(* requests of different clients interleave between those steps.           *)
(***************************************************************************)
EXTENDS Integers, Sequences, FiniteSets, TLC

\* ---------------------------------------------------------------- bounds
MaxSwaps == 2          \* swap documents ever stored
MaxReq == 2            \* requests in flight at the same time
MaxFails == 1          \* data-store operations that throw
MaxRequests == 4       \* requests served in one run
ItemValue == 80        \* pointsValue of the seeded items

\* ------------------------------------------------------ program constants
StartPoints == 100     \* userSchema.points default
Bonus == 100           \* bonus credited to both parties on accept

Users == 1..3
Items == 1..2
Procs == 1..MaxReq
SwapIds == 1..MaxSwaps
Null == 0
AdminUser == 3

AdminPointsChoices == {0}
RequestChoices == {1}
PointsChoices == {0, ItemValue, ItemValue + 1}
OfferChoices == {<<>>} \cup {<<i>> : i \in Items}
Scores == {1, 5}
Reasons == {"", "worn out"}
Messages == {"", "no thanks"}
PriceChoices == {0, ItemValue + 1}
RangeChoices == {0, ItemValue, ItemValue + 1}
Flags == {"keep", "true", "false"}
NoOwner == <<"none", Null>>
OwnerChoices == {NoOwner, <<"owner", AdminUser>>, <<"$set", AdminUser>>}
ImageChoices == {"keep", "none"}
StatusChoices == {"any", "completed", "pending"}

VARIABLES
    users,      \* User collection: id -> document
    items,      \* Item collection: id -> document (exists = FALSE once deleted)
    swaps,      \* Swap collection: sequence of documents, _id = index
    req,        \* request slot -> handler frame (locals + position)
    fails,      \* data-store operations that have thrown so far
    started,    \* requests received so far
    audit       \* history: per swap, how often each accept write was issued

vars == <<users, items, swaps, req, fails, started, audit>>

\* ------------------------------------------------------------- documents
\* swapSchema.pointsTransaction: a nested path, so every document carries
\* the sub-document with amount defaulting to 0 and no users.
NoTxn == [fromUser |-> Null, toUser |-> Null, amount |-> 0, hasId |-> FALSE]

NoRating == 0

NewSwap(requester, requestedItem, offeredItems, swapType, pointsOffered) ==
    [requester |-> requester, requestedItem |-> requestedItem,
     offeredItems |-> offeredItems, swapType |-> swapType,
     pointsOffered |-> pointsOffered, status |-> "pending",
     responseMessage |-> "",
     isCompleted |-> FALSE, cancelledBy |-> Null,
     pointsTransaction |-> NoTxn,
     requesterRating |-> NoRating, ownerRating |-> NoRating]

NewUser(role, itemsCount) ==
    [points |-> StartPoints, swapsCount |-> 0, itemsCount |-> itemsCount,
     role |-> role]

NewItem(owner) ==
    [exists |-> TRUE, owner |-> owner, pointsValue |-> ItemValue,
     isAvailable |-> TRUE, isApproved |-> TRUE, isRejected |-> FALSE,
     rejectionReason |-> "", likes |-> 0, likedBy |-> <<>>,
     redeemedBy |-> Null, images |-> 1, version |-> 0]

IdleReq ==
    [op |-> "none", pc |-> "idle", caller |-> Null, sid |-> Null,
     action |-> "none", item |-> Null, authPoints |-> 0, k |-> 0,
     swapType |-> "none", offered |-> <<>>, pts |-> 0, score |-> 0,
     pre |-> <<0, 0>>, preAvail |-> FALSE,
     preCount |-> <<0, 0>>, message |-> "", listed |-> {},
     reason |-> "", seq |-> 0, likes |-> 0, likedBy |-> <<>>,
     isLiked |-> FALSE, likes0 |-> 0, likedBy0 |-> <<>>,
     version |-> 0, counts |-> <<0, 0, 0>>,
     result |-> "none"]

NoAudit == [debits |-> 0, credits |-> 0, bonuses |-> 0, accepts |-> 0]

\* The store after seeding: three registered users, the last promoted by
\* `create-admin.js update`, the others each owning one approved, available
\* item.
Init ==
    /\ users = [u \in Users |->
                  NewUser(IF u = AdminUser THEN "admin" ELSE "user",
                          Cardinality({i \in Items : i = u}))]
    /\ items = [i \in Items |-> NewItem(i)]
    /\ swaps = <<>>
    /\ req = [p \in Procs |-> IdleReq]
    /\ fails = 0
    /\ started = 0
    /\ audit = [s \in SwapIds |-> NoAudit]

\* ---------------------------------------------------------------- helpers
Idle(p) == req[p].pc = "idle"

\* owner of the requested item as populate() yields it
OwnerOf(s) == items[swaps[s].requestedItem].owner

Parties(s) == {swaps[s].requester, OwnerOf(s)}

\* The handler has made its last data-store call; what is left is
\* res.status(..).json(..) with this result.
Reply(f, result) ==
    [IdleReq EXCEPT !.pc = "done", !.result = result, !.op = f.op,
                    !.caller = f.caller, !.sid = f.sid, !.action = f.action,
                    !.item = f.item, !.pre = f.pre, !.preAvail = f.preAvail,
                    !.preCount = f.preCount, !.message = f.message,
                    !.listed = f.listed, !.counts = f.counts,
                    !.swapType = f.swapType, !.offered = f.offered,
                    !.pts = f.pts,
                    !.reason = f.reason, !.seq = f.seq, !.likes = f.likes, !.isLiked = f.isLiked,
                    !.likes0 = f.likes0, !.likedBy0 = f.likedBy0]

Finish(p, f, result) == req' = [req EXCEPT ![p] = Reply(f, result)]

Goto(p, pc) == req' = [req EXCEPT ![p].pc = pc]

\* A new request is served in the first free slot.
Free(p) ==
    /\ Idle(p) /\ \A q \in Procs : q < p => ~Idle(q)
    /\ started < MaxRequests
    /\ started' = started + 1

\* The response is written and the request is over.
Send(p) ==
    /\ req[p].pc = "done"
    /\ req' = [req EXCEPT ![p] = IdleReq]
    /\ UNCHANGED <<users, items, swaps, fails, started, audit>>

\* User.findByIdAndUpdate(id, {$inc: {points: dp, swapsCount: ds}})
IncUser(u, dp, ds) ==
    users' = [users EXCEPT ![u].points = @ + dp, ![u].swapsCount = @ + ds]

\* Item.findByIdAndUpdate(id, {isAvailable: false}); no document, no effect
MarkUnavailable(i) ==
    items' = IF items[i].exists
             THEN [items EXCEPT ![i].isAvailable = FALSE]
             ELSE items

Bump(s, field) ==
    audit' = [audit EXCEPT ![s][field] = @ + 1]

\* ------------------------------------------------ PUT /api/swaps/:id/respond
\* the handler without its owner check
RespondReadNoOwnerCheck(p, caller, sid, action, responseMessage) ==
    /\ Free(p)
    /\ LET f == [IdleReq EXCEPT !.op = "respond", !.caller = caller,
                                !.sid = sid, !.action = action,
                                !.message = responseMessage]
       IN
       /\ IF sid > Len(swaps) THEN Finish(p, f, "not_found")
          ELSE IF ~items[swaps[sid].requestedItem].exists
          THEN Finish(p, f, "error500")
          ELSE IF swaps[sid].status # "pending" THEN Finish(p, f, "invalid_state")
          ELSE /\ req' = [req EXCEPT ![p] =
                    [f EXCEPT !.pc = IF action = "reject" THEN "saveReject"
                                     ELSE IF swaps[sid].swapType = "points"
                                     THEN "debit" ELSE "markItem",
                              !.k = 1,
                              !.pre = <<users[swaps[sid].requester].points,
                                        users[OwnerOf(sid)].points>>,
                              !.preCount =
                                  <<users[swaps[sid].requester].swapsCount,
                                    users[OwnerOf(sid)].swapsCount>>,
                              !.preAvail =
                                  items[swaps[sid].requestedItem].isAvailable]]
    /\ UNCHANGED <<users, items, swaps, fails, audit>>

RespondRead(p, caller, sid, action, responseMessage) ==
    /\ Free(p)
    /\ LET f == [IdleReq EXCEPT !.op = "respond", !.caller = caller,
                                !.sid = sid, !.action = action,
                                !.message = responseMessage]
       IN
       /\ IF sid > Len(swaps) THEN Finish(p, f, "not_found")
          ELSE IF ~items[swaps[sid].requestedItem].exists
          THEN Finish(p, f, "error500")
          ELSE IF OwnerOf(sid) # caller THEN Finish(p, f, "forbidden")
          ELSE IF swaps[sid].status # "pending" THEN Finish(p, f, "invalid_state")
          ELSE /\ req' = [req EXCEPT ![p] =
                    [f EXCEPT !.pc = IF action = "reject" THEN "saveReject"
                                     ELSE IF swaps[sid].swapType = "points"
                                     THEN "debit" ELSE "markItem",
                              !.k = 1,
                              !.pre = <<users[swaps[sid].requester].points,
                                        users[OwnerOf(sid)].points>>,
                              !.preCount =
                                  <<users[swaps[sid].requester].swapsCount,
                                    users[OwnerOf(sid)].swapsCount>>,
                              !.preAvail =
                                  items[swaps[sid].requestedItem].isAvailable]]
    /\ UNCHANGED <<users, items, swaps, fails, audit>>

RespondDebit(p) ==
    /\ req[p].op = "respond" /\ req[p].pc = "debit"
    /\ LET s == req[p].sid IN
       /\ IncUser(swaps[s].requester, -swaps[s].pointsOffered, 0)
       /\ Bump(s, "debits")
       /\ Goto(p, "credit")
    /\ UNCHANGED <<items, swaps, fails, started>>

\* the credit sent to the wrong user id
RespondCreditWrongUser(p) ==
    /\ req[p].op = "respond" /\ req[p].pc = "credit"
    /\ LET s == req[p].sid IN
       /\ IncUser(swaps[s].requester, swaps[s].pointsOffered, 0)
       /\ Bump(s, "credits")
       /\ Goto(p, "markItem")
    /\ UNCHANGED <<items, swaps, fails, started>>

RespondCredit(p) ==
    /\ req[p].op = "respond" /\ req[p].pc = "credit"
    /\ LET s == req[p].sid IN
       /\ IncUser(OwnerOf(s), swaps[s].pointsOffered, 0)
       /\ Bump(s, "credits")
       /\ Goto(p, "markItem")
    /\ UNCHANGED <<items, swaps, fails, started>>

RespondMarkItem(p) ==
    /\ req[p].op = "respond" /\ req[p].pc = "markItem"
    /\ LET s == req[p].sid IN
       /\ MarkUnavailable(swaps[s].requestedItem)
       /\ Goto(p, IF swaps[s].swapType = "points" THEN "saveAccept"
                  ELSE IF Len(swaps[s].offeredItems) >= 1 THEN "markOffered"
                  ELSE "saveAccept")
    /\ UNCHANGED <<users, swaps, fails, started, audit>>

\* the loop over the offered items left out
RespondMarkOfferedSkipped(p) ==
    /\ req[p].op = "respond" /\ req[p].pc = "markOffered"
    /\ Goto(p, "saveAccept")
    /\ UNCHANGED <<users, items, swaps, fails, started, audit>>

RespondMarkOffered(p) ==
    /\ req[p].op = "respond" /\ req[p].pc = "markOffered"
    /\ LET s == req[p].sid
           k == req[p].k
       IN
       /\ MarkUnavailable(swaps[s].offeredItems[k])
       /\ req' = [req EXCEPT ![p].k = k + 1,
                             ![p].pc = IF k < Len(swaps[s].offeredItems)
                                       THEN "markOffered" ELSE "saveAccept"]
    /\ UNCHANGED <<users, swaps, fails, started, audit>>

\* the accepted save writing a transaction for either swap type
SaveAcceptedAlwaysTxn(s, responseMessage) ==
    [swaps EXCEPT ![s].status = "accepted",
                  ![s].responseMessage = responseMessage,
                  ![s].pointsTransaction =
                      [fromUser |-> swaps[s].requester,
                       toUser |-> OwnerOf(s),
                       amount |-> swaps[s].pointsOffered,
                       hasId |-> TRUE]]

\* swap.status = 'accepted' ... swap.save(): the modified paths are written
\* whatever the stored status is by then
SaveAccepted(s, responseMessage) ==
    [swaps EXCEPT ![s].status = "accepted",
                  ![s].responseMessage = responseMessage,
                  ![s].pointsTransaction =
                      IF swaps[s].swapType = "points"
                      THEN [fromUser |-> swaps[s].requester,
                            toUser |-> OwnerOf(s),
                            amount |-> swaps[s].pointsOffered,
                            hasId |-> TRUE]
                      ELSE @]

RespondSaveAccept(p) ==
    /\ req[p].op = "respond" /\ req[p].pc = "saveAccept"
    /\ LET s == req[p].sid IN
       /\ swaps' = SaveAccepted(s, req[p].message)
       /\ Bump(s, "accepts")
       /\ Goto(p, IF swaps[s].swapType = "points" THEN "bonusReq" ELSE "statReq")
    /\ UNCHANGED <<users, items, fails, started>>

RespondStatReq(p) ==
    /\ req[p].op = "respond" /\ req[p].pc = "statReq"
    /\ LET s == req[p].sid IN
       /\ IncUser(swaps[s].requester, 0, 1)
       /\ Goto(p, "statOwner")
    /\ UNCHANGED <<items, swaps, fails, started, audit>>

RespondStatOwner(p) ==
    /\ req[p].op = "respond" /\ req[p].pc = "statOwner"
    /\ LET s == req[p].sid IN
       /\ IncUser(OwnerOf(s), 0, 1)
       /\ Goto(p, "bonusReq")
    /\ UNCHANGED <<items, swaps, fails, started, audit>>

RespondBonusReq(p) ==
    /\ req[p].op = "respond" /\ req[p].pc = "bonusReq"
    /\ LET s == req[p].sid IN
       /\ IncUser(swaps[s].requester, Bonus, 1)
       /\ Bump(s, "bonuses")
       /\ Goto(p, "bonusOwner")
    /\ UNCHANGED <<items, swaps, fails, started>>

RespondBonusOwner(p) ==
    /\ req[p].op = "respond" /\ req[p].pc = "bonusOwner"
    /\ LET s == req[p].sid IN
       /\ IncUser(OwnerOf(s), Bonus, 1)
       /\ Bump(s, "bonuses")
       /\ Finish(p, req[p], "ok")
    /\ UNCHANGED <<items, swaps, fails, started>>

\* the rejected save without the response message
SaveRejectedNoMessage(s, responseMessage) ==
    [swaps EXCEPT ![s].status = "rejected"]

SaveRejected(s, responseMessage) ==
    [swaps EXCEPT ![s].status = "rejected",
                  ![s].responseMessage = responseMessage]

RespondSaveReject(p) ==
    /\ req[p].op = "respond" /\ req[p].pc = "saveReject"
    /\ swaps' = SaveRejected(req[p].sid, req[p].message)
    /\ Finish(p, req[p], "ok")
    /\ UNCHANGED <<users, items, fails, started, audit>>

\* ----------------------------------------------- PUT /api/swaps/:id/complete
\* populate('requestedItem', 'owner') leaves null for a deleted item; the
\* || short-circuits for the requester, anyone else dereferences null.
Involved(caller, s) ==
    \/ swaps[s].requester = caller
    \/ OwnerOf(s) = caller

InvolvedThrows(caller, s) ==
    /\ swaps[s].requester # caller
    /\ ~items[swaps[s].requestedItem].exists

\* the handler without its status check
CompleteReadNoStateCheck(p, caller, sid) ==
    /\ Free(p)
    /\ LET f == [IdleReq EXCEPT !.op = "complete", !.caller = caller, !.sid = sid]
       IN
       IF sid > Len(swaps) THEN Finish(p, f, "not_found")
       ELSE IF InvolvedThrows(caller, sid) THEN Finish(p, f, "error500")
       ELSE IF ~Involved(caller, sid) THEN Finish(p, f, "forbidden")
       ELSE req' = [req EXCEPT ![p] = [f EXCEPT !.pc = "saveComplete"]]
    /\ UNCHANGED <<users, items, swaps, fails, audit>>

CompleteRead(p, caller, sid) ==
    /\ Free(p)
    /\ LET f == [IdleReq EXCEPT !.op = "complete", !.caller = caller, !.sid = sid]
       IN
       IF sid > Len(swaps) THEN Finish(p, f, "not_found")
       ELSE IF InvolvedThrows(caller, sid) THEN Finish(p, f, "error500")
       ELSE IF ~Involved(caller, sid) THEN Finish(p, f, "forbidden")
       ELSE IF swaps[sid].status # "accepted" THEN Finish(p, f, "invalid_state")
       ELSE req' = [req EXCEPT ![p] = [f EXCEPT !.pc = "saveComplete"]]
    /\ UNCHANGED <<users, items, swaps, fails, audit>>

\* completeSwap without isCompleted
completeSwapStatusOnly(s) == [swaps EXCEPT ![s].status = "completed"]

completeSwap(s) ==
    [swaps EXCEPT ![s].status = "completed", ![s].isCompleted = TRUE]

CompleteSave(p) ==
    /\ req[p].op = "complete" /\ req[p].pc = "saveComplete"
    /\ swaps' = completeSwap(req[p].sid)
    /\ Finish(p, req[p], "ok")
    /\ UNCHANGED <<users, items, fails, started, audit>>

\* ------------------------------------------------- PUT /api/swaps/:id/cancel
\* the handler without its status check
CancelReadNoStateCheck(p, caller, sid) ==
    /\ Free(p)
    /\ LET f == [IdleReq EXCEPT !.op = "cancel", !.caller = caller, !.sid = sid]
       IN
       IF sid > Len(swaps) THEN Finish(p, f, "not_found")
       ELSE IF InvolvedThrows(caller, sid) THEN Finish(p, f, "error500")
       ELSE IF ~Involved(caller, sid) THEN Finish(p, f, "forbidden")
       ELSE req' = [req EXCEPT ![p] = [f EXCEPT !.pc = "saveCancel"]]
    /\ UNCHANGED <<users, items, swaps, fails, audit>>

CancelRead(p, caller, sid) ==
    /\ Free(p)
    /\ LET f == [IdleReq EXCEPT !.op = "cancel", !.caller = caller, !.sid = sid]
       IN
       IF sid > Len(swaps) THEN Finish(p, f, "not_found")
       ELSE IF InvolvedThrows(caller, sid) THEN Finish(p, f, "error500")
       ELSE IF ~Involved(caller, sid) THEN Finish(p, f, "forbidden")
       ELSE IF swaps[sid].status \notin {"pending", "accepted"}
       THEN Finish(p, f, "invalid_state")
       ELSE req' = [req EXCEPT ![p] = [f EXCEPT !.pc = "saveCancel"]]
    /\ UNCHANGED <<users, items, swaps, fails, audit>>

\* cancelSwap without cancelledBy
cancelSwapNoCaller(s, userId) == [swaps EXCEPT ![s].status = "cancelled"]

cancelSwap(s, userId) ==
    [swaps EXCEPT ![s].status = "cancelled", ![s].cancelledBy = userId]

CancelSave(p) ==
    /\ req[p].op = "cancel" /\ req[p].pc = "saveCancel"
    /\ swaps' = cancelSwap(req[p].sid, req[p].caller)
    /\ Finish(p, req[p], "ok")
    /\ UNCHANGED <<users, items, fails, started, audit>>

\* --------------------------------------------------- POST /api/swaps/:id/rate
\* Swap.findById without populate: requestedItem is an ObjectId, so
\* requestedItem.owner is undefined and .toString() throws for every caller
\* who is not the requester.
\* the handler without its completed check
RateReadNoStateCheck(p, caller, sid, score) ==
    /\ Free(p)
    /\ LET f == [IdleReq EXCEPT !.op = "rate", !.caller = caller, !.sid = sid,
                                !.score = score]
       IN
       IF sid > Len(swaps) THEN Finish(p, f, "not_found")
       ELSE IF swaps[sid].requester # caller THEN Finish(p, f, "error500")
       ELSE req' = [req EXCEPT ![p] = [f EXCEPT !.pc = "saveRating"]]
    /\ UNCHANGED <<users, items, swaps, fails, audit>>

RateRead(p, caller, sid, score) ==
    /\ Free(p)
    /\ LET f == [IdleReq EXCEPT !.op = "rate", !.caller = caller, !.sid = sid,
                                !.score = score]
       IN
       IF sid > Len(swaps) THEN Finish(p, f, "not_found")
       ELSE IF swaps[sid].requester # caller THEN Finish(p, f, "error500")
       ELSE IF swaps[sid].status # "completed" THEN Finish(p, f, "invalid_state")
       ELSE req' = [req EXCEPT ![p] = [f EXCEPT !.pc = "saveRating"]]
    /\ UNCHANGED <<users, items, swaps, fails, audit>>

addRating(s, userId, rating) ==
    IF userId = swaps[s].requester
    THEN [swaps EXCEPT ![s].requesterRating = rating]
    ELSE [swaps EXCEPT ![s].ownerRating = rating]

RateSave(p) ==
    /\ req[p].op = "rate" /\ req[p].pc = "saveRating"
    /\ swaps' = addRating(req[p].sid, req[p].caller, req[p].score)
    /\ Finish(p, req[p], "ok")
    /\ UNCHANGED <<users, items, fails, started, audit>>

\* ------------------------------------------------------------ POST /api/swaps
\* Swap documents are only ever added; the bound reserves a slot per
\* create request in flight.
CreatesInFlight == Cardinality({q \in Procs : req[q].op = "create"})

\* authenticateToken: req.user is the user document as of this read
CreateAuth(p, caller) ==
    /\ Free(p)
    /\ Len(swaps) + CreatesInFlight < MaxSwaps
    /\ req' = [req EXCEPT ![p] =
                 [IdleReq EXCEPT !.op = "create", !.caller = caller,
                                 !.pc = "findItem",
                                 !.authPoints = users[caller].points]]
    /\ UNCHANGED <<users, items, swaps, fails, audit>>

\* the handler with the own-item check ahead of the availability check
CreateFindItemOwnFirst(p, requestedItem, swapType, offeredItems, pointsOffered) ==
    /\ req[p].op = "create" /\ req[p].pc = "findItem"
    /\ swapType = "direct" => pointsOffered = 0
    /\ swapType = "points" => offeredItems = <<>>
    /\ LET f == [req[p] EXCEPT !.item = requestedItem, !.swapType = swapType,
                               !.offered = offeredItems, !.pts = pointsOffered]
           it == items[requestedItem]
       IN
       IF ~it.exists THEN Finish(p, f, "not_found")
       ELSE IF it.owner = f.caller THEN Finish(p, f, "self_swap")
       ELSE IF ~it.isAvailable \/ ~it.isApproved
       THEN Finish(p, f, "item_unavailable")
       ELSE IF swapType = "direct"
       THEN IF Len(offeredItems) = 0 THEN Finish(p, f, "invalid_offer")
            ELSE req' = [req EXCEPT ![p] = [f EXCEPT !.pc = "findOffered"]]
       ELSE IF pointsOffered = 0 THEN Finish(p, f, "points_required")
       ELSE IF f.authPoints < pointsOffered
       THEN Finish(p, f, "insufficient_points")
       ELSE IF pointsOffered # it.pointsValue
       THEN Finish(p, f, "points_mismatch")
       ELSE req' = [req EXCEPT ![p] = [f EXCEPT !.pc = "findDup"]]
    /\ UNCHANGED <<users, items, swaps, fails, started, audit>>

\* the handler without its req.user.points < pointsOffered check
CreateFindItemNoBalanceCheck(p, requestedItem, swapType, offeredItems, pointsOffered) ==
    /\ req[p].op = "create" /\ req[p].pc = "findItem"
    /\ swapType = "direct" => pointsOffered = 0
    /\ swapType = "points" => offeredItems = <<>>
    /\ LET f == [req[p] EXCEPT !.item = requestedItem, !.swapType = swapType,
                               !.offered = offeredItems, !.pts = pointsOffered]
           it == items[requestedItem]
       IN
       IF ~it.exists THEN Finish(p, f, "not_found")
       ELSE IF ~it.isAvailable \/ ~it.isApproved
       THEN Finish(p, f, "item_unavailable")
       ELSE IF it.owner = f.caller THEN Finish(p, f, "self_swap")
       ELSE IF swapType = "direct"
       THEN IF Len(offeredItems) = 0 THEN Finish(p, f, "invalid_offer")
            ELSE req' = [req EXCEPT ![p] = [f EXCEPT !.pc = "findOffered"]]
       ELSE IF pointsOffered = 0 THEN Finish(p, f, "points_required")
       ELSE IF pointsOffered # it.pointsValue
       THEN Finish(p, f, "points_mismatch")
       ELSE req' = [req EXCEPT ![p] = [f EXCEPT !.pc = "findDup"]]
    /\ UNCHANGED <<users, items, swaps, fails, started, audit>>

CreateFindItem(p, requestedItem, swapType, offeredItems, pointsOffered) ==
    /\ req[p].op = "create" /\ req[p].pc = "findItem"
    /\ swapType = "direct" => pointsOffered = 0
    /\ swapType = "points" => offeredItems = <<>>
    /\ LET f == [req[p] EXCEPT !.item = requestedItem, !.swapType = swapType,
                               !.offered = offeredItems, !.pts = pointsOffered]
           it == items[requestedItem]
       IN
       IF ~it.exists THEN Finish(p, f, "not_found")
       ELSE IF ~it.isAvailable \/ ~it.isApproved
       THEN Finish(p, f, "item_unavailable")
       ELSE IF it.owner = f.caller THEN Finish(p, f, "self_swap")
       ELSE IF swapType = "direct"
       THEN IF Len(offeredItems) = 0 THEN Finish(p, f, "invalid_offer")
            ELSE req' = [req EXCEPT ![p] = [f EXCEPT !.pc = "findOffered"]]
       ELSE IF pointsOffered = 0 THEN Finish(p, f, "points_required")
       ELSE IF f.authPoints < pointsOffered
       THEN Finish(p, f, "insufficient_points")
       ELSE IF pointsOffered # it.pointsValue
       THEN Finish(p, f, "points_mismatch")
       ELSE req' = [req EXCEPT ![p] = [f EXCEPT !.pc = "findDup"]]
    /\ UNCHANGED <<users, items, swaps, fails, started, audit>>

\* the loop without its owner comparison
RECURSIVE OfferCheckNoOwner(_, _, _)
OfferCheckNoOwner(offered, k, caller) ==
    IF k > Len(offered) THEN "ok"
    ELSE IF ~items[offered[k]].isAvailable \/ ~items[offered[k]].isApproved
    THEN "offered_unavailable"
    ELSE OfferCheckNoOwner(offered, k + 1, caller)

\* Item.find({_id: {$in: offeredItems}}) and the loop over its result
RECURSIVE OfferCheck(_, _, _)
OfferCheck(offered, k, caller) ==
    IF k > Len(offered) THEN "ok"
    ELSE IF items[offered[k]].owner # caller THEN "offered_not_owned"
    ELSE IF ~items[offered[k]].isAvailable \/ ~items[offered[k]].isApproved
    THEN "offered_unavailable"
    ELSE OfferCheck(offered, k + 1, caller)

CreateFindOffered(p) ==
    /\ req[p].op = "create" /\ req[p].pc = "findOffered"
    /\ LET f == req[p]
           found == {i \in Items : items[i].exists
                                   /\ \E k \in 1..Len(f.offered) : f.offered[k] = i}
           check == OfferCheck(f.offered, 1, f.caller)
       IN
       IF Cardinality(found) # Len(f.offered)
       THEN Finish(p, f, "offered_not_found")
       ELSE IF check # "ok" THEN Finish(p, f, check)
       ELSE Goto(p, "findDup")
    /\ UNCHANGED <<users, items, swaps, fails, started, audit>>

\* the query without its status: 'pending' condition
existingSwapAnyStatus(requester, requestedItem) ==
    \E s \in 1..Len(swaps) :
        /\ swaps[s].requester = requester
        /\ swaps[s].requestedItem = requestedItem

existingSwap(requester, requestedItem) ==
    \E s \in 1..Len(swaps) :
        /\ swaps[s].requester = requester
        /\ swaps[s].requestedItem = requestedItem
        /\ swaps[s].status = "pending"

CreateFindDup(p) ==
    /\ req[p].op = "create" /\ req[p].pc = "findDup"
    /\ IF existingSwap(req[p].caller, req[p].item)
       THEN Finish(p, req[p], "duplicate")
       ELSE Goto(p, "saveSwap")
    /\ UNCHANGED <<users, items, swaps, fails, started, audit>>

\* a save that also reserves the requested item
CreateSaveReserves(p) ==
    /\ req[p].op = "create" /\ req[p].pc = "saveSwap"
    /\ LET f == req[p] IN
       /\ swaps' = Append(swaps, NewSwap(f.caller, f.item,
                        IF f.swapType = "direct" THEN f.offered ELSE <<>>,
                        f.swapType,
                        IF f.swapType = "points" THEN f.pts ELSE 0))
       /\ MarkUnavailable(f.item)
       /\ Finish(p, [f EXCEPT !.sid = Len(swaps) + 1], "ok")
    /\ UNCHANGED <<users, fails, started, audit>>

CreateSave(p) ==
    /\ req[p].op = "create" /\ req[p].pc = "saveSwap"
    /\ LET f == req[p] IN
       /\ swaps' = Append(swaps, NewSwap(f.caller, f.item,
                        IF f.swapType = "direct" THEN f.offered ELSE <<>>,
                        f.swapType,
                        IF f.swapType = "points" THEN f.pts ELSE 0))
       /\ Finish(p, [f EXCEPT !.sid = Len(swaps) + 1], "ok")
    /\ UNCHANGED <<users, items, fails, started, audit>>

\* ------------------------------------------- POST /api/items/:id/redeem-owner
RedeemAuth(p, caller) ==
    /\ Free(p)
    /\ req' = [req EXCEPT ![p] =
                 [IdleReq EXCEPT !.op = "redeem", !.caller = caller,
                                 !.pc = "findItem",
                                 !.authPoints = users[caller].points]]
    /\ UNCHANGED <<users, items, swaps, fails, audit>>

RedeemFindItem(p, i) ==
    /\ req[p].op = "redeem" /\ req[p].pc = "findItem"
    /\ LET f == [req[p] EXCEPT !.item = i] IN
       IF ~items[i].exists THEN Finish(p, f, "not_found")
       ELSE IF items[i].owner # f.caller THEN Finish(p, f, "forbidden")
       ELSE IF ~items[i].isAvailable THEN Finish(p, f, "item_unavailable")
       ELSE IF f.authPoints < items[i].pointsValue
       THEN Finish(p, f, "insufficient_points")
       ELSE req' = [req EXCEPT ![p] = [f EXCEPT !.pc = "redeemDebit",
                                                !.pts = items[i].pointsValue]]
    /\ UNCHANGED <<users, items, swaps, fails, started, audit>>

RedeemDebit(p) ==
    /\ req[p].op = "redeem" /\ req[p].pc = "redeemDebit"
    /\ IncUser(req[p].caller, -req[p].pts, 0)
    /\ Goto(p, "redeemMark")
    /\ UNCHANGED <<items, swaps, fails, started, audit>>

RedeemMark(p) ==
    /\ req[p].op = "redeem" /\ req[p].pc = "redeemMark"
    /\ items' = IF items[req[p].item].exists
                THEN [items EXCEPT ![req[p].item].isAvailable = FALSE,
                                   ![req[p].item].redeemedBy = req[p].caller]
                ELSE items
    /\ Goto(p, "redeemCount")
    /\ UNCHANGED <<users, swaps, fails, started, audit>>

RedeemCount(p) ==
    /\ req[p].op = "redeem" /\ req[p].pc = "redeemCount"
    /\ users' = [users EXCEPT ![req[p].caller].itemsCount = @ - 1]
    /\ Finish(p, req[p], "ok")
    /\ UNCHANGED <<items, swaps, fails, started, audit>>

\* ---------------------------------------- POST /api/items/:id/mark-unavailable
MarkFindItem(p, caller, i) ==
    /\ Free(p)
    /\ LET f == [IdleReq EXCEPT !.op = "markUnavailable", !.caller = caller,
                                !.item = i]
       IN
       IF ~items[i].exists THEN Finish(p, f, "not_found")
       ELSE IF items[i].owner # caller THEN Finish(p, f, "forbidden")
       ELSE IF ~items[i].isAvailable THEN Finish(p, f, "item_unavailable")
       ELSE req' = [req EXCEPT ![p] = [f EXCEPT !.pc = "deleteItem"]]
    /\ UNCHANGED <<users, items, swaps, fails, audit>>

MarkDelete(p) ==
    /\ req[p].op = "markUnavailable" /\ req[p].pc = "deleteItem"
    /\ items' = [items EXCEPT ![req[p].item].exists = FALSE]
    /\ Goto(p, "deleteCount")
    /\ UNCHANGED <<users, swaps, fails, started, audit>>

MarkCount(p) ==
    /\ req[p].op = "markUnavailable" /\ req[p].pc = "deleteCount"
    /\ users' = [users EXCEPT ![req[p].caller].itemsCount = @ - 1]
    /\ Finish(p, req[p], "ok")
    /\ UNCHANGED <<items, swaps, fails, started, audit>>

\* ------------------------------------------ PUT /api/admin/users/:id/points
\* requireAdmin, then one findByIdAndUpdate(id, {points})
AdminSetPoints(p, caller, u, points) ==
    /\ Free(p)
    /\ LET f == [IdleReq EXCEPT !.op = "adminPoints", !.caller = caller] IN
       IF users[caller].role # "admin"
       THEN Finish(p, f, "forbidden") /\ UNCHANGED users
       ELSE /\ users' = [users EXCEPT ![u].points = points]
            /\ Finish(p, f, "ok")
    /\ UNCHANGED <<items, swaps, fails, audit>>

\* ----------------------------------------------------- POST /api/items/:id/like
\* Array.prototype.indexOf on likedBy: first position of userId, 0 if absent
RECURSIVE indexOf(_, _, _)
indexOf(likedBy, userId, k) ==
    IF k > Len(likedBy) THEN 0
    ELSE IF likedBy[k] = userId THEN k
    ELSE indexOf(likedBy, userId, k + 1)

\* likedBy.splice(index, 1)
splice(likedBy, index) ==
    [k \in 1..(Len(likedBy) - 1) |->
        IF k < index THEN likedBy[k] ELSE likedBy[k + 1]]

isLikedBy(doc, userId) == \E k \in 1..Len(doc.likedBy) : doc.likedBy[k] = userId

\* the unlike branch without its decrement
toggleLikeKeepsCount(doc, userId) ==
    LET index == indexOf(doc.likedBy, userId, 1) IN
    IF index > 0
    THEN [doc EXCEPT !.likedBy = splice(doc.likedBy, index)]
    ELSE [doc EXCEPT !.likedBy = Append(doc.likedBy, userId),
                     !.likes = doc.likes + 1]

\* itemSchema.methods.toggleLike, on the document the handler holds
toggleLike(doc, userId) ==
    LET index == indexOf(doc.likedBy, userId, 1) IN
    IF index > 0
    THEN [doc EXCEPT !.likedBy = splice(doc.likedBy, index),
                     !.likes = doc.likes - 1]
    ELSE [doc EXCEPT !.likedBy = Append(doc.likedBy, userId),
                     !.likes = doc.likes + 1]

LikeRead(p, caller, i) ==
    /\ Free(p)
    /\ LET f == [IdleReq EXCEPT !.op = "like", !.caller = caller, !.item = i,
                                !.seq = started + 1]
       IN
       IF ~items[i].exists THEN Finish(p, f, "not_found")
       ELSE req' = [req EXCEPT ![p] =
                      [f EXCEPT !.pc = "saveLike",
                                !.likes = items[i].likes,
                                !.likedBy = items[i].likedBy,
                                !.likes0 = items[i].likes,
                                !.likedBy0 = items[i].likedBy,
                                !.version = items[i].version]]
    /\ UNCHANGED <<users, items, swaps, fails, audit>>

\* item.toggleLike(req.user._id) and its save(), then the response built
\* from the document in memory. save() sends the changes made to the copy:
\* likes as $set of the new number; a push as $push of the user with $inc
\* of the version; a splice as $set of the whole array, conditional on the
\* version read (VersionError otherwise) and with $inc of the version.
LikeSave(p) ==
    /\ req[p].op = "like" /\ req[p].pc = "saveLike"
    /\ LET f == req[p]
           i == f.item
           doc == toggleLike([likes |-> f.likes, likedBy |-> f.likedBy], f.caller)
           pushed == indexOf(f.likedBy, f.caller, 1) = 0
           answer == [f EXCEPT !.likes = doc.likes,
                               !.isLiked = isLikedBy(doc, f.caller)]
       IN
       IF ~items[i].exists
       THEN items' = items /\ Finish(p, answer, "ok")
       ELSE IF pushed
       THEN /\ items' = [items EXCEPT
                           ![i].likes = doc.likes,
                           ![i].likedBy = Append(@, f.caller),
                           ![i].version = @ + 1]
            /\ Finish(p, answer, "ok")
       ELSE IF items[i].version # f.version
       THEN items' = items /\ Finish(p, f, "error500")
       ELSE /\ items' = [items EXCEPT
                           ![i].likes = doc.likes,
                           ![i].likedBy = doc.likedBy,
                           ![i].version = @ + 1]
            /\ Finish(p, answer, "ok")
    /\ UNCHANGED <<users, swaps, fails, started, audit>>

\* ---------------------------------------------------------- PUT /api/items/:id
\* requireOwnership(Item)
UpdateOwnership(p, caller, i) ==
    /\ Free(p)
    /\ LET f == [IdleReq EXCEPT !.op = "update", !.caller = caller, !.item = i]
       IN
       IF ~items[i].exists THEN Finish(p, f, "not_found")
       ELSE IF items[i].owner # caller THEN Finish(p, f, "forbidden")
       ELSE req' = [req EXCEPT ![p] = [f EXCEPT !.pc = "updateItem"]]
    /\ UNCHANGED <<users, items, swaps, fails, audit>>

\* one field of updateData = {...req.body}: written when the body carries it
Assign(flag, old) == IF flag = "keep" THEN old ELSE flag = "true"

\* Item.findByIdAndUpdate(req.params.id, updateData) with updateData =
\* {...req.body} less its top-level owner key: every other schema path of
\* the body is written, and so are the paths under a $set key of the body,
\* which Mongoose merges into the update (pointsValue 0, images "keep":
\* not in the body; images "none": an empty array; owner: where the body
\* names an owner, if at all, and whom)
UpdateSave(p, isAvailable, isApproved, isRejected, pointsValue, owner, images) ==
    /\ req[p].op = "update" /\ req[p].pc = "updateItem"
    /\ LET i == req[p].item IN
       items' = IF items[i].exists
                THEN [items EXCEPT
                        ![i].isAvailable = Assign(isAvailable, @),
                        ![i].isApproved = Assign(isApproved, @),
                        ![i].isRejected = Assign(isRejected, @),
                        ![i].pointsValue =
                            IF pointsValue = 0 THEN @ ELSE pointsValue,
                        ![i].owner = IF owner[1] = "$set" THEN owner[2] ELSE @,
                        ![i].images = IF images = "keep" THEN @ ELSE 0]
                ELSE items
    /\ Finish(p, req[p], "ok")
    /\ UNCHANGED <<users, swaps, fails, started, audit>>

\* ------------------------------------------------------ DELETE /api/items/:id
\* requireOwnership(Item), then the handler up to its first data-store
\* call: with images it calls deleteMultipleImages, which the items router
\* never declares (ReferenceError, caught: 500)
DeleteOwnership(p, caller, i) ==
    /\ Free(p)
    /\ LET f == [IdleReq EXCEPT !.op = "delete", !.caller = caller, !.item = i]
       IN
       IF ~items[i].exists THEN Finish(p, f, "not_found")
       ELSE IF items[i].owner # caller THEN Finish(p, f, "forbidden")
       ELSE IF items[i].images > 0 THEN Finish(p, f, "error500")
       ELSE req' = [req EXCEPT ![p] = [f EXCEPT !.pc = "deleteItem",
                                                !.k = caller]]
    /\ UNCHANGED <<users, items, swaps, fails, audit>>

\* DELETE /api/admin/items/:id: requireAdmin, Item.findById, then the same
\* call; the admin router imports deleteMultipleImages from a module that
\* does not export it (TypeError, caught: 500)
AdminDeleteRead(p, caller, i) ==
    /\ Free(p)
    /\ LET f == [IdleReq EXCEPT !.op = "adminDelete", !.caller = caller,
                                !.item = i]
       IN
       IF users[caller].role # "admin" THEN Finish(p, f, "forbidden")
       ELSE IF ~items[i].exists THEN Finish(p, f, "not_found")
       ELSE IF items[i].images > 0 THEN Finish(p, f, "error500")
       ELSE req' = [req EXCEPT ![p] = [f EXCEPT !.pc = "deleteItem",
                                                !.k = items[i].owner]]
    /\ UNCHANGED <<users, items, swaps, fails, audit>>

\* Item.findByIdAndDelete(req.params.id)
DeleteRemove(p) ==
    /\ req[p].op \in {"delete", "adminDelete"} /\ req[p].pc = "deleteItem"
    /\ items' = [items EXCEPT ![req[p].item].exists = FALSE]
    /\ Goto(p, "deleteCount")
    /\ UNCHANGED <<users, swaps, fails, started, audit>>

\* User.findByIdAndUpdate(owner, {$inc: {itemsCount: -1}})
DeleteCount(p) ==
    /\ req[p].op \in {"delete", "adminDelete"} /\ req[p].pc = "deleteCount"
    /\ users' = [users EXCEPT ![req[p].k].itemsCount = @ - 1]
    /\ Finish(p, req[p], "ok")
    /\ UNCHANGED <<items, swaps, fails, started, audit>>

\* ------------------------------------------------------- GET /api/users/stats
\* Swap.countDocuments({$or: [{requester: userId, status?},
\* {'requestedItem.owner': userId, status?}]}): a stored swap holds
\* requestedItem as an ObjectId, so the second branch matches no document
countDocuments(userId, status) ==
    Cardinality({s \in 1..Len(swaps) :
                    /\ swaps[s].requester = userId
                    /\ status = "any" \/ swaps[s].status = status})

\* authenticateToken and the two Item.countDocuments
StatsRead(p, caller) ==
    /\ Free(p)
    /\ req' = [req EXCEPT ![p] =
                 [IdleReq EXCEPT !.op = "stats", !.caller = caller,
                                 !.pc = "countTotal"]]
    /\ UNCHANGED <<users, items, swaps, fails, audit>>

StatsTotal(p) ==
    /\ req[p].op = "stats" /\ req[p].pc = "countTotal"
    /\ req' = [req EXCEPT ![p].counts[1] = countDocuments(req[p].caller, "any"),
                          ![p].pc = "countCompleted"]
    /\ UNCHANGED <<users, items, swaps, fails, started, audit>>

StatsCompleted(p) ==
    /\ req[p].op = "stats" /\ req[p].pc = "countCompleted"
    /\ req' = [req EXCEPT
                 ![p].counts[2] = countDocuments(req[p].caller, "completed"),
                 ![p].pc = "countPending"]
    /\ UNCHANGED <<users, items, swaps, fails, started, audit>>

StatsPending(p) ==
    /\ req[p].op = "stats" /\ req[p].pc = "countPending"
    /\ Finish(p, [req[p] EXCEPT
                    !.counts[3] = countDocuments(req[p].caller, "pending")],
              "ok")
    /\ UNCHANGED <<users, items, swaps, fails, started, audit>>

\* ------------------------------------------------------------- GET /api/swaps
\* countPipeline: $lookup of the requested item, $unwind (a swap whose item
\* is gone drops out), $match on requester or item owner and on the status
\* of the query, $count
countPipeline(userId, status) ==
    Cardinality({s \in 1..Len(swaps) :
                    /\ items[swaps[s].requestedItem].exists
                    /\ \/ swaps[s].requester = userId
                       \/ items[swaps[s].requestedItem].owner = userId
                    /\ status = "any" \/ swaps[s].status = status})

ListSwaps(p, caller, status) ==
    /\ Free(p)
    /\ Finish(p, [IdleReq EXCEPT !.op = "listSwaps", !.caller = caller,
                     !.action = status,
                     !.counts = <<countPipeline(caller, status), 0, 0>>], "ok")
    /\ UNCHANGED <<users, items, swaps, fails, audit>>

\* ------------------------------------------------------------ item listings
\* getFeaturedItems without its isRejected condition
getFeaturedItemsApprovedOnly ==
    {i \in Items : /\ items[i].exists
                   /\ items[i].isAvailable /\ items[i].isApproved}

\* itemSchema.statics.getFeaturedItems
getFeaturedItems ==
    {i \in Items : /\ items[i].exists
                   /\ items[i].isAvailable /\ items[i].isApproved
                   /\ ~items[i].isRejected}

\* GET /api/items: the fixed filter, narrowed by the query's points range
\* (0: bound not given)
ListItems(p, minPoints, maxPoints) ==
    /\ Free(p)
    /\ LET filter(i) ==
               /\ items[i].isAvailable /\ items[i].isApproved
               /\ ~items[i].isRejected
               /\ minPoints # 0 => items[i].pointsValue >= minPoints
               /\ maxPoints # 0 => items[i].pointsValue <= maxPoints
           f == [IdleReq EXCEPT !.op = "list",
                    !.listed = {i \in Items : items[i].exists /\ filter(i)}]
       IN Finish(p, f, "ok")
    /\ UNCHANGED <<users, items, swaps, fails, audit>>

\* GET /api/items/featured
ListFeatured(p) ==
    /\ Free(p)
    /\ Finish(p, [IdleReq EXCEPT !.op = "featured",
                                 !.listed = getFeaturedItems], "ok")
    /\ UNCHANGED <<users, items, swaps, fails, audit>>

\* GET /api/items/user/:userId
ListByUser(p, userId) ==
    /\ Free(p)
    /\ LET f == [IdleReq EXCEPT !.op = "userItems",
                    !.listed = {i \in Items :
                                   /\ items[i].exists
                                   /\ items[i].owner = userId
                                   /\ items[i].isAvailable
                                   /\ items[i].isApproved
                                   /\ ~items[i].isRejected}]
       IN Finish(p, f, "ok")
    /\ UNCHANGED <<users, items, swaps, fails, audit>>

\* ------------------------------------------- PUT /api/admin/items/:id/approve
\* the handler without its already-approved check
ApproveReadNoGuard(p, caller, i) ==
    /\ Free(p)
    /\ LET f == [IdleReq EXCEPT !.op = "approve", !.caller = caller, !.item = i]
       IN
       IF users[caller].role # "admin" THEN Finish(p, f, "forbidden")
       ELSE IF ~items[i].exists THEN Finish(p, f, "not_found")
       ELSE req' = [req EXCEPT ![p] = [f EXCEPT !.pc = "saveApprove"]]
    /\ UNCHANGED <<users, items, swaps, fails, audit>>

ApproveRead(p, caller, i) ==
    /\ Free(p)
    /\ LET f == [IdleReq EXCEPT !.op = "approve", !.caller = caller, !.item = i]
       IN
       IF users[caller].role # "admin" THEN Finish(p, f, "forbidden")
       ELSE IF ~items[i].exists THEN Finish(p, f, "not_found")
       ELSE IF items[i].isApproved THEN Finish(p, f, "already_approved")
       ELSE req' = [req EXCEPT ![p] = [f EXCEPT !.pc = "saveApprove"]]
    /\ UNCHANGED <<users, items, swaps, fails, audit>>

ApproveSave(p) ==
    /\ req[p].op = "approve" /\ req[p].pc = "saveApprove"
    /\ items' = [items EXCEPT ![req[p].item].isApproved = TRUE,
                              ![req[p].item].isRejected = FALSE,
                              ![req[p].item].rejectionReason = ""]
    /\ Finish(p, req[p], "ok")
    /\ UNCHANGED <<users, swaps, fails, started, audit>>

\* -------------------------------------------- PUT /api/admin/items/:id/reject
RejectRead(p, caller, i, reason) ==
    /\ Free(p)
    /\ LET f == [IdleReq EXCEPT !.op = "reject", !.caller = caller, !.item = i,
                                !.reason = reason]
       IN
       IF users[caller].role # "admin" THEN Finish(p, f, "forbidden")
       ELSE IF reason = "" THEN Finish(p, f, "validation_failed")
       ELSE IF ~items[i].exists THEN Finish(p, f, "not_found")
       ELSE IF items[i].isRejected THEN Finish(p, f, "already_rejected")
       ELSE req' = [req EXCEPT ![p] = [f EXCEPT !.pc = "saveRejection"]]
    /\ UNCHANGED <<users, items, swaps, fails, audit>>

RejectSave(p) ==
    /\ req[p].op = "reject" /\ req[p].pc = "saveRejection"
    /\ items' = [items EXCEPT ![req[p].item].isApproved = FALSE,
                              ![req[p].item].isRejected = TRUE,
                              ![req[p].item].rejectionReason = req[p].reason]
    /\ Finish(p, req[p], "ok")
    /\ UNCHANGED <<users, swaps, fails, started, audit>>

\* -------------------------------------------------------------- failures
\* The data-store call a handler is about to await rejects: the handler's
\* catch block answers 500 and nothing is undone.
StoreFailure(p) ==
    /\ req[p].pc \notin {"idle", "done"}
    /\ fails < MaxFails
    /\ fails' = fails + 1
    /\ Finish(p, req[p], "error500")
    /\ UNCHANGED <<users, items, swaps, started, audit>>

\* ------------------------------------------------------------------- next
RespondStepFor(p, messages) ==
    \/ \E c \in Users, s \in SwapIds, a \in {"accept", "reject"},
          m \in messages : RespondRead(p, c, s, a, m)
    \/ RespondDebit(p)
    \/ RespondCredit(p)
    \/ RespondMarkItem(p)
    \/ RespondMarkOffered(p)
    \/ RespondSaveAccept(p)
    \/ RespondStatReq(p)
    \/ RespondStatOwner(p)
    \/ RespondBonusReq(p)
    \/ RespondBonusOwner(p)
    \/ RespondSaveReject(p)

\* responses without a message
RespondStep(p) == RespondStepFor(p, {""})

CloseStep(p) ==
    \/ \E c \in Users, s \in SwapIds : CompleteRead(p, c, s)
    \/ CompleteSave(p)
    \/ \E c \in Users, s \in SwapIds : CancelRead(p, c, s)
    \/ CancelSave(p)

RateStep(p) ==
    \/ \E c \in Users, s \in SwapIds, sc \in Scores : RateRead(p, c, s, sc)
    \/ RateSave(p)

CreateStep(p) ==
    \/ \E c \in Users : CreateAuth(p, c)
    \/ \E i \in RequestChoices, t \in {"direct", "points"}, o \in OfferChoices,
          n \in PointsChoices : CreateFindItem(p, i, t, o, n)
    \/ CreateFindOffered(p)
    \/ CreateFindDup(p)
    \/ CreateSave(p)

RedeemStep(p) ==
    \/ \E c \in Users : RedeemAuth(p, c)
    \/ \E i \in Items : RedeemFindItem(p, i)
    \/ RedeemDebit(p)
    \/ RedeemMark(p)
    \/ RedeemCount(p)

MarkStep(p) ==
    \/ \E c \in Users, i \in Items : MarkFindItem(p, c, i)
    \/ MarkDelete(p)
    \/ MarkCount(p)

AdminStep(p) ==
    \E c \in Users, u \in Users, n \in AdminPointsChoices :
        AdminSetPoints(p, c, u, n)

LikeStep(p) ==
    \/ \E c \in Users, i \in Items : LikeRead(p, c, i)
    \/ LikeSave(p)

\* bodies that carry at most one of the three flags, pointsValue, owner
\* and images
UpdateStepFor(p, flags, prices, owners) ==
    \/ \E c \in Users, i \in Items : UpdateOwnership(p, c, i)
    \/ \E a \in flags, b \in flags, c \in flags, v \in prices,
          o \in owners, m \in ImageChoices :
          /\ Cardinality({x \in {<<1, a>>, <<2, b>>, <<3, c>>} : x[2] # "keep"})
                 + (IF v = 0 THEN 0 ELSE 1) + (IF o = NoOwner THEN 0 ELSE 1)
                 + (IF m = "keep" THEN 0 ELSE 1) <= 1
          /\ UpdateSave(p, a, b, c, v, o, m)

\* bodies without a $set key
UpdateStep(p) ==
    UpdateStepFor(p, Flags, PriceChoices, {o \in OwnerChoices : o[1] # "$set"})

DeleteStep(p) ==
    \/ \E c \in Users, i \in Items : DeleteOwnership(p, c, i)
    \/ \E c \in Users, i \in Items : AdminDeleteRead(p, c, i)
    \/ DeleteRemove(p)
    \/ DeleteCount(p)

StatsStep(p) ==
    \/ \E c \in Users : StatsRead(p, c)
    \/ StatsTotal(p)
    \/ StatsCompleted(p)
    \/ StatsPending(p)
    \/ \E c \in Users, st \in StatusChoices : ListSwaps(p, c, st)

ListStep(p) ==
    \/ \E lo \in RangeChoices, hi \in RangeChoices : ListItems(p, lo, hi)
    \/ ListFeatured(p)
    \/ \E u \in Users : ListByUser(p, u)

ModerateStep(p) ==
    \/ \E c \in Users, i \in Items : ApproveRead(p, c, i)
    \/ ApproveSave(p)
    \/ \E c \in Users, i \in Items, r \in Reasons : RejectRead(p, c, i, r)
    \/ RejectSave(p)

\* A request turned away by a validation, authorisation or state check has
\* only read the store.
Refused(p) ==
    req[p].pc = "done" /\ req[p].result \notin {"ok", "error500"}

Work(p) ==
    \/ RespondStep(p)
    \/ CloseStep(p)
    \/ CreateStep(p)
    \/ RedeemStep(p)
    \/ AdminStep(p)

\* ... and its response is of no interest to the other requests: it leaves.
TurnedAway(p) ==
    /\ ~Idle(p)
    /\ ENABLED (Work(p) /\ Refused(p)')
    /\ req' = [req EXCEPT ![p] = IdleReq]
    /\ UNCHANGED <<users, items, swaps, fails, started, audit>>

\* Concurrent requests with data-store failures and admin updates.
Next ==
    \E p \in Procs :
        \/ Work(p) /\ ~Refused(p)'
        \/ TurnedAway(p)
        \/ StoreFailure(p)
        \/ Send(p)

Spec == Init /\ [][Next]_vars

\* One request at a time, any request: every handler runs from its first
\* read to its response before the next request is served.
Alone(p) == \A q \in Procs \ {p} : Idle(q)

NextSeq ==
    \E p \in Procs :
        /\ Alone(p)
        /\ \/ RespondStepFor(p, Messages)
           \/ CloseStep(p)
           \/ RateStep(p)
           \/ CreateStep(p)
           \/ RedeemStep(p)
           \/ MarkStep(p)
           \/ Send(p)

SeqSpec == Init /\ [][NextSeq]_vars

\* The like handler, one request at a time; a response may stay unread
\* while the next request is served.
Quiet(p) ==
    \A q \in Procs \ {p} : Idle(q) \/ req[q].pc = "done"

NextLike ==
    \E p \in Procs :
        /\ Quiet(p)
        /\ \/ LikeStep(p)
           \/ Send(p)

LikeSpec == Init /\ [][NextLike]_vars

\* The owner's update, the admin's moderation and the public listings, one
\* request at a time.
NextModerate ==
    \E p \in Procs :
        /\ Alone(p)
        /\ \/ UpdateStep(p)
           \/ ModerateStep(p)
           \/ ListStep(p)
           \/ Send(p)

ModerateSpec == Init /\ [][NextModerate]_vars

\* Swap requests and the owner's item update, one request at a time.
NextPrice ==
    \E p \in Procs :
        /\ Alone(p)
        /\ \/ CreateStep(p)
           \/ RespondStep(p)
           \/ UpdateStep(p)
           \/ Send(p)

PriceSpec == Init /\ [][NextPrice]_vars

\* Like requests of any users on any items, interleaved between their read
\* and their save.
NextLikeRace ==
    \E p \in Procs :
        \/ LikeStep(p)
        \/ Send(p)

LikeRaceSpec == Init /\ [][NextLikeRace]_vars

\* The swap handlers and the two views of a user's swaps, one request at a
\* time.
NextView ==
    \E p \in Procs :
        /\ Alone(p)
        /\ \/ CreateStep(p)
           \/ RespondStep(p)
           \/ CloseStep(p)
           \/ StatsStep(p)
           \/ Send(p)

ViewSpec == Init /\ [][NextView]_vars

\* Everything that writes an item, one request at a time; the update
\* bodies carry owner or images.
NextCatalog ==
    \E p \in Procs :
        /\ Alone(p)
        /\ \/ UpdateStepFor(p, {"keep"}, {0}, OwnerChoices)
           \/ DeleteStep(p)
           \/ ModerateStep(p)
           \/ LikeStep(p)
           \/ RedeemStep(p)
           \/ CreateStep(p)
           \/ RespondStep(p)
           \/ CloseStep(p)
           \/ Send(p)

CatalogSpec == Init /\ [][NextCatalog]_vars

\* ================================================================ claims
Stored == 1..Len(swaps)

InFlight(p) == req[p].pc \notin {"idle", "done"}

\* a respond(accept) on a points swap that has been answered with `result'
AcceptAnswered(p, result) ==
    /\ req[p].pc = "done" /\ req[p].op = "respond"
    /\ req[p].action = "accept" /\ req[p].result = result
    /\ swaps[req[p].sid].swapType = "points"

\* C1: when the owner's accept of a pending points swap has completed, and
\* no other request ran meanwhile, the requester holds the balance read at
\* the start of the call minus pointsOffered plus the bonus, and the owner
\* that balance plus pointsOffered plus the bonus.
C1_AcceptMovesPoints ==
    \A p \in Procs :
        AcceptAnswered(p, "ok") =>
            LET s == req[p].sid IN
            /\ users[swaps[s].requester].points =
                   req[p].pre[1] - swaps[s].pointsOffered + Bonus
            /\ users[OwnerOf(s)].points =
                   req[p].pre[2] + swaps[s].pointsOffered + Bonus

C1_Witness ==
    \E p \in Procs :
        /\ AcceptAnswered(p, "ok")
        /\ swaps[req[p].sid].pointsOffered > 0
        /\ swaps[req[p].sid].status = "accepted"

\* C2: no state of the store shows the requester of a points swap debited
\* without the owner credited.
C2_TransferAtomic ==
    \A s \in SwapIds : audit[s].debits = audit[s].credits

\* C3: with any number of concurrent accepts of one swap, and no data-store
\* failure, the debit, the credit and the two bonus updates of the swap are
\* each issued at most once.
C3_AppliedOnce ==
    fails = 0 =>
        \A s \in SwapIds :
            /\ audit[s].debits <= 1
            /\ audit[s].credits <= 1
            /\ audit[s].bonuses <= 2

\* C4: the status of a swap leaves pending once: a swap that a cancel or a
\* reject has taken out of pending is not accepted afterwards.
C4_RespondSerialized ==
    [][\A s \in Stored :
          swaps[s].status \in {"rejected", "cancelled"}
              => swaps'[s].status # "accepted"]_vars

\* C5: requests served one after the other change the status of a swap only
\* along pending->accepted, pending->rejected, accepted->completed,
\* pending->cancelled and accepted->cancelled; a new swap starts pending and
\* a rejected, completed or cancelled swap keeps its status.
StatusGraph ==
    {<<"pending", "accepted">>, <<"pending", "rejected">>,
     <<"accepted", "completed">>, <<"pending", "cancelled">>,
     <<"accepted", "cancelled">>}

C5_StatusGraph ==
    [][/\ \A s \in Stored :
             swaps'[s].status # swaps[s].status
                 => <<swaps[s].status, swaps'[s].status>> \in StatusGraph
       /\ \A s \in 1..Len(swaps') :
             s > Len(swaps) => swaps'[s].status = "pending"]_vars

C5_Witness ==
    \E s \in Stored :
        /\ swaps[s].status = "completed"
        /\ swaps[s].requesterRating # NoRating

\* C6: respond on a swap that is not pending, complete on one that is not
\* accepted and cancel on one that is neither, each sent by a user the
\* handler admits (the requested item's owner; for complete and cancel also
\* the requester), are answered with the invalid-state error and leave the
\* swaps, the items and the users as they were.
Admitted(op, caller, s) ==
    IF op = "respond"
    THEN items[swaps[s].requestedItem].exists /\ OwnerOf(s) = caller
    ELSE Involved(caller, s) /\ ~InvolvedThrows(caller, s)

OutOfGraph(op, status) ==
    \/ op = "respond" /\ status # "pending"
    \/ op = "complete" /\ status # "accepted"
    \/ op = "cancel" /\ status \notin {"pending", "accepted"}

C7_PointsNonNegative ==
    \A u \in Users : users[u].points >= 0

\* C8: once no accept of a swap is in progress any more, a swap that is
\* still pending has had neither the debit nor the credit applied.
C8_AcceptAllOrNothing ==
    \A s \in Stored :
        (/\ swaps[s].status = "pending"
         /\ \A p \in Procs : ~(InFlight(p) /\ req[p].op = "respond"
                                /\ req[p].sid = s))
        => audit[s].debits = 0 /\ audit[s].credits = 0

\* C9: an accept by the owner of a pending points swap whose requester
\* holds fewer points than pointsOffered when the handler reads the swap is
\* answered with the insufficient-points error at once, and moves no points.
C9_DebitChecked ==
    [][\A p \in Procs :
          (/\ Idle(p) /\ ~Idle(p)'
           /\ req'[p].op = "respond" /\ req'[p].action = "accept"
           /\ req'[p].sid \in Stored
           /\ Admitted("respond", req'[p].caller, req'[p].sid)
           /\ swaps[req'[p].sid].status = "pending"
           /\ swaps[req'[p].sid].swapType = "points"
           /\ users[swaps[req'[p].sid].requester].points
                  < swaps[req'[p].sid].pointsOffered)
          => /\ req'[p].pc = "done"
             /\ req'[p].result = "insufficient_points"
             /\ UNCHANGED <<users, items, swaps>>]_vars

\* C10: of the swaps that request one item, at most one is ever accepted.
C10_FirstAcceptedWins ==
    \A i \in Items :
        Cardinality({s \in Stored : /\ swaps[s].requestedItem = i
                                    /\ audit[s].accepts > 0}) <= 1

\* the items a swap names: the requested one and the offered ones
SwapItems(s) ==
    {swaps[s].requestedItem}
        \cup {swaps[s].offeredItems[k] : k \in 1..Len(swaps[s].offeredItems)}

\* C11: an item that was the requested item or an offered item of a swap
\* whose accept was saved is not available, in that state and in every
\* state the swap operations reach afterwards.
C11_AcceptedItemsUnavailable ==
    \A s \in Stored :
        audit[s].accepts > 0 =>
            \A i \in SwapItems(s) : items[i].exists => ~items[i].isAvailable

C11_Witness ==
    \E s \in Stored :
        /\ audit[s].accepts > 0
        /\ swaps[s].status \in {"completed", "cancelled"}
        /\ swaps[s].swapType = "direct"
        /\ \A i \in SwapItems(s) : items[i].exists /\ ~items[i].isAvailable

\* the pending swaps of one requester for one item
PendingFor(requester, requestedItem) ==
    {s \in Stored : /\ swaps[s].requester = requester
                    /\ swaps[s].requestedItem = requestedItem
                    /\ swaps[s].status = "pending"}

\* C12: no requester ever has two pending swaps for the same item.
C12_OnePendingPerPair ==
    \A u \in Users, i \in Items : Cardinality(PendingFor(u, i)) <= 1

\* C13: a create that has passed the item and offer checks is answered with
\* the duplicate error, and stores nothing, when its requester has a pending
\* swap for the item; when the requester has none (an earlier one being
\* rejected, accepted, cancelled or completed) it goes on to store the swap.
C13_DuplicateBlocked ==
    [][\A p \in Procs :
          (req[p].op = "create" /\ req[p].pc = "findDup" /\ req'[p] # req[p])
          => IF PendingFor(req[p].caller, req[p].item) # {}
             THEN /\ req'[p].pc = "done" /\ req'[p].result = "duplicate"
                  /\ swaps' = swaps
             ELSE req'[p].pc = "saveSwap"]_vars

C13_Witness ==
    \E p \in Procs :
        /\ req[p].pc = "done" /\ req[p].op = "create"
        /\ req[p].result = "duplicate"
        /\ PendingFor(req[p].caller, req[p].item) # {}

Ratings(s) == <<swaps[s].requesterRating, swaps[s].ownerRating>>

\* C14: a rate request for a swap that is not completed is refused whoever
\* sends it and writes nothing; the rating slots of a swap change only
\* while its status is completed.
C14_RateOnlyCompleted ==
    [][/\ \A p \in Procs :
             (/\ Idle(p) /\ ~Idle(p)'
              /\ req'[p].op = "rate" /\ req'[p].sid \in Stored
              /\ swaps[req'[p].sid].status # "completed")
             => /\ req'[p].pc = "done" /\ req'[p].result # "ok"
                /\ swaps' = swaps
       /\ \A s \in Stored :
             Ratings(s)' # Ratings(s) => swaps[s].status = "completed"]_vars

C14_Witness ==
    \E p \in Procs :
        /\ req[p].pc = "done" /\ req[p].op = "rate"
        /\ req[p].result = "invalid_state"
        /\ swaps[req[p].sid].status = "accepted"
        /\ Ratings(req[p].sid) = <<NoRating, NoRating>>

\* C15: a rate request for a completed swap is admitted when, and only
\* when, it comes from the requester or from the owner of the requested
\* item.
C15_BothPartiesRate ==
    [][\A p \in Procs :
          (/\ Idle(p) /\ ~Idle(p)'
           /\ req'[p].op = "rate" /\ req'[p].sid \in Stored
           /\ swaps[req'[p].sid].status = "completed")
          => (req'[p].caller \in Parties(req'[p].sid)
                  <=> req'[p].pc = "saveRating")]_vars

\* an item the user may request: it exists, is available and approved, and
\* is someone else's
Requestable(i, u) ==
    /\ items[i].exists /\ items[i].isAvailable /\ items[i].isApproved
    /\ items[i].owner # u

\* the create handler has moved on by one data-store call
CreateMoved(p) ==
    /\ req[p].op = "create" /\ req'[p].op = "create" /\ req'[p] # req[p]

\* C16: a create of a points swap for a requestable item, by a requester
\* who holds fewer points than the pointsOffered of the request, is answered
\* with the insufficient-points error; no swap is stored and no balance
\* changes.
C16_CreateNeedsPoints ==
    [][\A p \in Procs :
          (/\ CreateMoved(p) /\ req[p].pc = "findItem"
           /\ req'[p].swapType = "points" /\ req'[p].pts > 0
           /\ Requestable(req'[p].item, req[p].caller)
           /\ users[req[p].caller].points < req'[p].pts)
          => /\ req'[p].pc = "done"
             /\ req'[p].result = "insufficient_points"
             /\ UNCHANGED <<users, items, swaps>>]_vars

C16_Witness ==
    \E p \in Procs :
        /\ req[p].pc = "done" /\ req[p].op = "create"
        /\ req[p].result = "insufficient_points"
        /\ req[p].pts = ItemValue
        /\ users[req[p].caller].points < ItemValue
        /\ swaps = <<>>

\* C17: an approve of an item that is approved, and a reject (with a
\* reason) of an item that is rejected, sent by an admin, are answered with
\* the already-approved and the already-rejected error; the item keeps its
\* isApproved, isRejected and rejectionReason.
C17_ModerationGuards ==
    [][\A p \in Procs :
          (/\ Idle(p) /\ ~Idle(p)'
           /\ req'[p].op \in {"approve", "reject"}
           /\ users[req'[p].caller].role = "admin"
           /\ items[req'[p].item].exists)
          => /\ (req'[p].op = "approve" /\ items[req'[p].item].isApproved)
                    => /\ req'[p].pc = "done"
                       /\ req'[p].result = "already_approved"
                       /\ items' = items
             /\ (/\ req'[p].op = "reject" /\ req'[p].reason # ""
                 /\ items[req'[p].item].isRejected)
                    => /\ req'[p].pc = "done"
                       /\ req'[p].result = "already_rejected"
                       /\ items' = items]_vars

C17_Witness ==
    \E p \in Procs :
        /\ req[p].pc = "done" /\ req[p].op = "reject"
        /\ req[p].result = "already_rejected"
        /\ items[req[p].item].isRejected
        /\ ~items[req[p].item].isApproved
        /\ items[req[p].item].rejectionReason # ""

\* an offer the create handler must refuse
BadOffer(offered, u) ==
    \/ Len(offered) = 0
    \/ \E k \in 1..Len(offered) :
          \/ ~items[offered[k]].exists
          \/ items[offered[k]].owner # u
          \/ ~items[offered[k]].isAvailable
          \/ ~items[offered[k]].isApproved

InvalidOfferErrors ==
    {"invalid_offer", "offered_not_found", "offered_not_owned",
     "offered_unavailable"}

\* C18: a create of a direct swap for a requestable item whose offer is
\* empty, or names an item that is missing, not the requester's, unavailable
\* or unapproved, gets no further than the look-up of the offered items: it
\* is answered with an invalid-offer error, no swap is stored and no item
\* changes.
C18_InvalidOfferRefused ==
    [][\A p \in Procs :
          (/\ CreateMoved(p)
           /\ req'[p].swapType = "direct"
           /\ Requestable(req'[p].item, req[p].caller)
           /\ BadOffer(req'[p].offered, req[p].caller))
          => /\ \/ req'[p].pc = "findOffered"
                \/ /\ req'[p].pc = "done"
                   /\ req'[p].result \in InvalidOfferErrors
             /\ UNCHANGED <<users, items, swaps>>]_vars

C18_Witness ==
    \E p \in Procs :
        /\ req[p].pc = "done" /\ req[p].op = "create"
        /\ req[p].result = "offered_not_owned"
        /\ Len(req[p].offered) = 1
        /\ items[req[p].offered[1]].owner # req[p].caller
        /\ swaps = <<>>

\* the answered like of slot q directly follows the answered like of slot
\* p, by the same user on the same item, and is the latest request
LikedTwice(p, q) ==
    /\ req[p].pc = "done" /\ req[p].op = "like" /\ req[p].result = "ok"
    /\ req[q].pc = "done" /\ req[q].op = "like" /\ req[q].result = "ok"
    /\ req[p].caller = req[q].caller /\ req[p].item = req[q].item
    /\ req[q].seq = req[p].seq + 1 /\ req[q].seq = started
    /\ indexOf(req[p].likedBy0, req[p].caller, 1) = 0

\* C19: two likes in a row by one user on an item the user had not liked:
\* the first answers isLiked = true and likes + 1, the second answers
\* isLiked = false and the original likes, and the item's likes and likedBy
\* are again what they were.
C19_ToggleTwiceRestores ==
    \A p \in Procs, q \in Procs :
        LikedTwice(p, q) =>
            /\ req[p].isLiked /\ req[p].likes = req[p].likes0 + 1
            /\ ~req[q].isLiked /\ req[q].likes = req[p].likes0
            /\ items[req[p].item].likes = req[p].likes0
            /\ items[req[p].item].likedBy = req[p].likedBy0

C19_Witness ==
    \E p \in Procs, q \in Procs :
        /\ LikedTwice(p, q)
        /\ Len(req[p].likedBy0) >= 1

\* C20: no item is approved and rejected at once.
C20_ApprovedXorRejected ==
    \A i \in Items : ~(items[i].isApproved /\ items[i].isRejected)

\* what the public may be shown: an approved, available item that is not
\* rejected
Listable(i) ==
    /\ items[i].exists
    /\ items[i].isAvailable /\ items[i].isApproved /\ ~items[i].isRejected

Listings == {"list", "featured", "userItems"}

\* C21: every item answered by the item list (whatever points range the
\* query gives), by the featured list and by the list of a user's items is,
\* in the store as the query reads it, available, approved and not rejected.
C21_ListingsShowListableOnly ==
    [][\A p \in Procs :
          (Idle(p) /\ ~Idle(p)' /\ req'[p].op \in Listings)
          => /\ req'[p].pc = "done" /\ req'[p].result = "ok"
             /\ \A i \in req'[p].listed : Listable(i)
             /\ items' = items]_vars

C21_Witness ==
    \E p \in Procs, i \in Items, j \in Items :
        /\ req[p].pc = "done" /\ req[p].op = "featured"
        /\ i \in req[p].listed
        /\ items[j].isApproved /\ items[j].isAvailable /\ items[j].isRejected
        /\ j \notin req[p].listed

\* a respond(accept) that has been answered with success
AcceptDone(p) ==
    /\ req[p].pc = "done" /\ req[p].op = "respond"
    /\ req[p].action = "accept" /\ req[p].result = "ok"

\* C22: when an accept has succeeded, on a points swap or on a direct swap,
\* the requester's and the owner's swapsCount are each one more than when
\* the handler read the swap.
C22_AcceptCountsOnce ==
    \A p \in Procs :
        AcceptDone(p) =>
            /\ users[swaps[req[p].sid].requester].swapsCount
                   = req[p].preCount[1] + 1
            /\ users[OwnerOf(req[p].sid)].swapsCount = req[p].preCount[2] + 1

\* C23: when an accept of a direct swap has succeeded, the requester and
\* the owner each hold exactly Bonus more points than when the handler read
\* the swap, and the swap's pointsTransaction is as it was created.
C23_DirectAcceptBonusOnly ==
    \A p \in Procs :
        (AcceptDone(p) /\ swaps[req[p].sid].swapType = "direct")
        => /\ users[swaps[req[p].sid].requester].points = req[p].pre[1] + Bonus
           /\ users[OwnerOf(req[p].sid)].points = req[p].pre[2] + Bonus
           /\ swaps[req[p].sid].pointsTransaction = NoTxn

C23_Witness ==
    \E p \in Procs :
        /\ AcceptDone(p) /\ swaps[req[p].sid].swapType = "direct"
        /\ swaps[req[p].sid].status = "accepted"
        /\ Len(swaps[req[p].sid].offeredItems) >= 1
        /\ users[OwnerOf(req[p].sid)].points = StartPoints + Bonus

C25_PendingOffersItemValue ==
    \A s \in Stored :
        (/\ swaps[s].swapType = "points" /\ swaps[s].status = "pending"
         /\ items[swaps[s].requestedItem].exists)
        => swaps[s].pointsOffered = items[swaps[s].requestedItem].pointsValue

\* the answer the preconditions of create call for, taken in their order:
\* requested item, own item, offer or points, duplicate
CreateVerdict(caller, requestedItem, swapType, offeredItems, pointsOffered) ==
    LET it == items[requestedItem] IN
    IF ~it.exists THEN "not_found"
    ELSE IF ~it.isAvailable \/ ~it.isApproved THEN "item_unavailable"
    ELSE IF it.owner = caller THEN "self_swap"
    ELSE IF swapType = "direct" /\ BadOffer(offeredItems, caller)
    THEN "invalid_offer"
    ELSE IF swapType = "points" /\ pointsOffered = 0 THEN "points_required"
    ELSE IF swapType = "points" /\ users[caller].points < pointsOffered
    THEN "insufficient_points"
    ELSE IF swapType = "points" /\ pointsOffered # it.pointsValue
    THEN "points_mismatch"
    ELSE IF PendingFor(caller, requestedItem) # {} THEN "duplicate"
    ELSE "ok"

\* the four answers of the offer validation count as one failure
ErrorKind(result) ==
    IF result \in InvalidOfferErrors THEN "invalid_offer" ELSE result

\* C26: whenever create answers, its answer is that of the first violated
\* precondition in the order requested item found and available+approved,
\* not the caller's own, offer valid (direct) or points given, covered and
\* matching (points), no pending duplicate; it succeeds when none is
\* violated.
C26_CreateCheckOrder ==
    [][\A p \in Procs :
          (CreateMoved(p) /\ req'[p].pc = "done")
          => ErrorKind(req'[p].result)
                 = CreateVerdict(req[p].caller, req'[p].item, req'[p].swapType,
                                 req'[p].offered, req'[p].pts)]_vars

C26_Witness ==
    \E p \in Procs :
        /\ req[p].pc = "done" /\ req[p].op = "create"
        /\ req[p].result = "item_unavailable"
        /\ items[req[p].item].owner = req[p].caller
        /\ req[p].swapType = "points" /\ req[p].pts # ItemValue

\* C27: a step that stores a swap is the last step of a create: it appends
\* one pending swap built from the request, keeps every stored swap, every
\* user and every item as they were, and so keeps the requested item
\* requestable by whoever could request it before.
C27_CreateOnlyStores ==
    [][Len(swaps') # Len(swaps)
          => /\ Len(swaps') = Len(swaps) + 1
             /\ SubSeq(swaps', 1, Len(swaps)) = swaps
             /\ swaps'[Len(swaps')].status = "pending"
             /\ \E p \in Procs :
                   /\ CreateMoved(p)
                   /\ req'[p].pc = "done" /\ req'[p].result = "ok"
                   /\ swaps'[Len(swaps')].requester = req[p].caller
                   /\ swaps'[Len(swaps')].requestedItem = req[p].item
             /\ UNCHANGED <<users, items>>
             /\ \A u \in Users, i \in Items :
                   Requestable(i, u) => Requestable(i, u)']_vars

C27_Witness ==
    \E s \in Stored, t \in Stored :
        /\ s # t
        /\ swaps[s].requestedItem = swaps[t].requestedItem
        /\ swaps[s].requester # swaps[t].requester
        /\ swaps[s].status = "pending" /\ swaps[t].status = "pending"
        /\ items[swaps[s].requestedItem].isAvailable
        /\ \A u \in Users : users[u].points = StartPoints
                            /\ users[u].swapsCount = 0

\* C28: a reject of a pending swap by the requested item's owner goes to the
\* save without a write; the save sets status rejected and responseMessage
\* to the request's message, and leaves the swap's pointsTransaction, the
\* other swaps, the users and the items as they were.
C28_RejectOnlyMarks ==
    [][\A p \in Procs :
          /\ (/\ Idle(p) /\ ~Idle(p)'
              /\ req'[p].op = "respond" /\ req'[p].action = "reject"
              /\ req'[p].sid \in Stored
              /\ Admitted("respond", req'[p].caller, req'[p].sid)
              /\ swaps[req'[p].sid].status = "pending")
             => /\ req'[p].pc = "saveReject"
                /\ UNCHANGED <<users, items, swaps>>
          /\ (/\ req[p].op = "respond" /\ req[p].pc = "saveReject"
              /\ req'[p] # req[p])
             => /\ req'[p].pc = "done" /\ req'[p].result = "ok"
                /\ swaps' = [swaps EXCEPT
                               ![req[p].sid].status = "rejected",
                               ![req[p].sid].responseMessage = req[p].message]
                /\ UNCHANGED <<users, items>>]_vars

C28_Witness ==
    \E p \in Procs :
        /\ req[p].pc = "done" /\ req[p].op = "respond"
        /\ req[p].action = "reject" /\ req[p].result = "ok"
        /\ swaps[req[p].sid].status = "rejected"
        /\ swaps[req[p].sid].responseMessage = "no thanks"
        /\ swaps[req[p].sid].swapType = "points"
        /\ swaps[req[p].sid].pointsTransaction = NoTxn

AcceptTxn(s) ==
    [fromUser |-> swaps[s].requester, toUser |-> OwnerOf(s),
     amount |-> swaps[s].pointsOffered, hasId |-> TRUE]

\* C31: a swap carries a pointsTransaction only when it is a points swap
\* whose status is accepted, completed or cancelled, and then the
\* transaction names the requester, the requested item's owner and
\* pointsOffered; pending and rejected swaps and direct swaps carry none.
C31_TransactionOnlyAfterAccept ==
    \A s \in Stored :
        IF swaps[s].pointsTransaction = NoTxn
        THEN TRUE
        ELSE /\ swaps[s].swapType = "points"
             /\ swaps[s].status \in {"accepted", "completed", "cancelled"}
             /\ swaps[s].pointsTransaction = AcceptTxn(s)

\* a redeem-owner that has been answered with success
Redeemed(p) ==
    /\ req[p].pc = "done" /\ req[p].op = "redeem" /\ req[p].result = "ok"

\* C36: no two redeem-owner requests for one item are both answered with
\* success.
C36_RedeemedOnce ==
    \A p \in Procs, q \in Procs :
        (p # q /\ Redeemed(p) /\ Redeemed(q)) => req[p].item # req[q].item

\* C37: a swap has isCompleted exactly when its status is completed.
C37_CompletedFlagMatchesStatus ==
    \A s \in Stored : swaps[s].isCompleted <=> swaps[s].status = "completed"

\* the users in likedBy, each once
Likers(i) == {items[i].likedBy[k] : k \in 1..Len(items[i].likedBy)}

\* C38: every item's likes equals the number of users in its likedBy, no
\* user is in likedBy twice, and likes is not negative.
C38_LikesCountLikedBy ==
    \A i \in Items :
        /\ items[i].likes = Cardinality(Likers(i))
        /\ Cardinality(Likers(i)) = Len(items[i].likedBy)
        /\ items[i].likes >= 0

\* C32: an existing item's isApproved and isRejected change only in a step
\* of an approve or reject request for that item sent by an admin.
C32_ModerationOnlyByAdmin ==
    [][\A i \in Items :
          (/\ items[i].exists
           /\ <<items[i].isApproved, items[i].isRejected>>'
                  # <<items[i].isApproved, items[i].isRejected>>)
          => \E p \in Procs :
                /\ req[p].op \in {"approve", "reject"} /\ req[p].item = i
                /\ users[req[p].caller].role = "admin"]_vars

\* C33: no step changes the owner of an item, whatever the update body
\* carries; an update of an existing item sent by a user who is not its
\* owner is answered forbidden and leaves users, items and swaps as they
\* were.
C33_OwnerNeverChanges ==
    [][/\ \A i \in Items : items'[i].owner = items[i].owner
       /\ \A p \in Procs :
             (/\ Idle(p) /\ ~Idle(p)'
              /\ req'[p].op = "update"
              /\ items[req'[p].item].exists
              /\ items[req'[p].item].owner # req'[p].caller)
             => /\ req'[p].pc = "done" /\ req'[p].result = "forbidden"
                /\ UNCHANGED <<users, items, swaps>>]_vars

\* C34: a delete of an existing item with at least one image, sent by its
\* owner or through the admin route by an admin, goes on to remove the
\* item.
C34_DeleteSucceeds ==
    [][\A p \in Procs :
          (/\ Idle(p) /\ ~Idle(p)'
           /\ \/ /\ req'[p].op = "delete"
                 /\ items[req'[p].item].owner = req'[p].caller
              \/ /\ req'[p].op = "adminDelete"
                 /\ users[req'[p].caller].role = "admin"
           /\ items[req'[p].item].exists
           /\ items[req'[p].item].images >= 1)
          => req'[p].pc = "deleteItem"]_vars

\* C35: the three counts the stats request answers are the totals the
\* swap list reports for the caller: all swaps, the completed ones and the
\* pending ones in which the caller is the requester or the owner of the
\* requested item.
C35_StatsMatchList ==
    \A p \in Procs :
        (req[p].pc = "done" /\ req[p].op = "stats" /\ req[p].result = "ok")
        => req[p].counts = <<countPipeline(req[p].caller, "any"),
                             countPipeline(req[p].caller, "completed"),
                             countPipeline(req[p].caller, "pending")>>

====
